---- MODULE Spec2Model ----
(***************************************************************************)
(* Fee-simulation engine and performance analytics of the hedge-fund fee   *)
(* simulator (feesim/engine.py, feesim/metrics.py).                        *)
(*                                                                         *)
(* Numbers.  The program computes in IEEE binary64.  The model computes in *)
(* exact rational arithmetic extended with +inf, -inf and nan: a value is  *)
(* a record [n, d] in lowest terms with d > 0, and d = 0 marks the three   *)
(* special values (n = 1, -1, 0).  Rounding error is not modelled; the     *)
(* special values, the comparisons with nan, Python's ZeroDivisionError    *)
(* and numpy's broadcasting are.  Square roots and fractional powers are   *)
(* kept symbolic (a root is represented by its radicand).                  *)
(***************************************************************************)
EXTENDS Integers, Sequences, FiniteSets

VARIABLES
    df,            \* engine: the input frame, a sequence of [Date, GrossReturn]
    scheme,        \* engine: the fee scheme dict
    initial_aum,   \* engine: the initial AUM
    aum,           \* engine: local aum of calculate_scheme
    hwm_value,     \* engine: local hwm_value of calculate_scheme
    records,       \* engine: the list of per-period dicts
    row,           \* engine: index of the next row of df the loop reads
    pc,            \* engine: "loop", "done", "raised", or "off"
    monthly_df,    \* engine: the returned monthly frame
    annual_rev,    \* engine: the returned annual frame (Year -> columns)
    wf,            \* waterfall: the evaluations of the tiered fee
    mx             \* metrics: inputs and results of the metric routines

vars ==
    <<df, scheme, initial_aum, aum, hwm_value, records, row, pc, monthly_df,
      annual_rev, wf, mx>>

engineVars ==
    <<df, scheme, initial_aum, aum, hwm_value, records, row, pc, monthly_df,
      annual_rev>>

-----------------------------------------------------------------------------
(* Bounds of the model *)

MaxLen == 2         \* longest return series given to calculate_scheme
MaxTiers == 2       \* longest tier list given to calculate_scheme
MaxWfTiers == 3     \* longest tier list of the waterfall evaluations
MaxGain == 6        \* largest gain_excess of the waterfall evaluations
MaxObs == 3         \* longest series given to the metric routines

(* Program constants *)

MonthsPerYear == 12

-----------------------------------------------------------------------------
(* Extended rational arithmetic *)

Abs(i) == IF i < 0 THEN -i ELSE i

RECURSIVE GCD(_, _)
GCD(a, b) == IF b = 0 THEN a ELSE GCD(b, a % b)

Norm(n, d) ==
    LET g == GCD(Abs(n), Abs(d))
        s == IF d < 0 THEN -1 ELSE 1
    IN  [n |-> s * (n \div g), d |-> s * (d \div g)]

Q(n, d) == Norm(n, d)

Zero == [n |-> 0, d |-> 1]
One == [n |-> 1, d |-> 1]
PosInf == [n |-> 1, d |-> 0]
NegInf == [n |-> -1, d |-> 0]
NaN == [n |-> 0, d |-> 0]
None == [none |-> TRUE]

IsNaN(a) == a = NaN
IsFinite(a) == a.d # 0

FNeg(a) == [n |-> -a.n, d |-> a.d]

FAdd(a, b) ==
    IF IsFinite(a) /\ IsFinite(b)
    THEN LET g == GCD(a.d, b.d)
         IN  Norm(a.n * (b.d \div g) + b.n * (a.d \div g), (a.d \div g) * b.d)
    ELSE IF IsNaN(a) \/ IsNaN(b) THEN NaN
    ELSE IF IsFinite(a) THEN b
    ELSE IF IsFinite(b) THEN a
    ELSE IF a = b THEN a ELSE NaN

FSub(a, b) == FAdd(a, FNeg(b))

Sign(a) == IF a.n > 0 THEN 1 ELSE IF a.n < 0 THEN -1 ELSE 0

FMul(a, b) ==
    IF IsFinite(a) /\ IsFinite(b)
    THEN LET g1 == GCD(Abs(a.n), b.d)
             g2 == GCD(Abs(b.n), a.d)
         IN  Norm((a.n \div g1) * (b.n \div g2), (a.d \div g2) * (b.d \div g1))
    ELSE IF IsNaN(a) \/ IsNaN(b) \/ Sign(a) = 0 \/ Sign(b) = 0 THEN NaN
    ELSE [n |-> Sign(a) * Sign(b), d |-> 0]

\* IEEE division as numpy scalars perform it: x/0 is +-inf or nan, never an error.
FDiv(a, b) ==
    IF IsNaN(a) \/ IsNaN(b) THEN NaN
    ELSE IF ~IsFinite(b) THEN (IF IsFinite(a) THEN Zero ELSE NaN)
    ELSE IF ~IsFinite(a) THEN [n |-> a.n * (IF b.n < 0 THEN -1 ELSE 1), d |-> 0]
    ELSE IF b.n = 0 THEN [n |-> Sign(a), d |-> 0]
    ELSE FMul(a, Norm(b.d, b.n))

FLt(a, b) ==
    IF IsNaN(a) \/ IsNaN(b) \/ a = b THEN FALSE
    ELSE IF a = NegInf \/ b = PosInf THEN TRUE
    ELSE IF a = PosInf \/ b = NegInf THEN FALSE
    ELSE LET g == GCD(a.d, b.d)
         IN  a.n * (b.d \div g) < b.n * (a.d \div g)

FLe(a, b) == ~IsNaN(a) /\ ~IsNaN(b) /\ (a = b \/ FLt(a, b))

\* Python's max(a, b) and min(a, b): the first argument unless the second beats it.
PyMax(a, b) == IF FLt(a, b) THEN b ELSE a
PyMin(a, b) == IF FLt(b, a) THEN b ELSE a

-----------------------------------------------------------------------------
(* calculate_scheme: the per-period recurrence *)

\* Management fee (prorated monthly)
MgmtRevNotProrated(sch, aum_start) == FMul(sch.mgmt, aum_start)

MgmtRev(sch, aum_start) ==
    FMul(FDiv(sch.mgmt, Q(MonthsPerYear, 1)), aum_start)

AumAfter(aum_start, gross) == FMul(aum_start, FAdd(One, gross))

\* Gain subject to HWM or baseline
GainExcess(sch, aum_after, hwm, aum_start) ==
    PyMax(Zero, FSub(aum_after, IF sch.hwm THEN hwm ELSE aum_start))

\* The loop over scheme['tiers'], from tier k on; yields the locals fee_prop
\* and remaining as the loop leaves them.
RECURSIVE TierLoop(_, _, _, _, _)
TierLoop(tiers, k, remaining, fee_prop, lower) ==
    IF k > Len(tiers) THEN [fee_prop |-> fee_prop, remaining |-> remaining]
    ELSE LET tier == tiers[k]
             upper == IF tier.threshold # None THEN tier.threshold ELSE PosInf
             slice_width == PyMin(FSub(upper, lower), remaining)
         IN  IF FLe(slice_width, Zero)
             THEN [fee_prop |-> fee_prop, remaining |-> remaining]
             ELSE TierLoop(tiers, k + 1,
                           FSub(remaining, slice_width),
                           FAdd(fee_prop, FMul(slice_width, tier.manager_share)),
                           upper)

\* A waterfall that applies the share of the band reached to the whole gain.
RECURSIVE BandOf(_, _, _)
BandOf(tiers, k, prop) ==
    IF k >= Len(tiers) THEN Len(tiers)
    ELSE IF tiers[k].threshold # None /\ FLt(tiers[k].threshold, prop)
         THEN BandOf(tiers, k + 1, prop)
         ELSE k

WaterfallWholeGain(gain_excess, aum_start, tiers) ==
    LET prop == FDiv(gain_excess, aum_start)
    IN  FMul(FMul(prop, tiers[BandOf(tiers, 1, prop)].manager_share), aum_start)

\* The tiered branch's body; aum_start # 0 (the caller raises otherwise).
Waterfall(gain_excess, aum_start, tiers) ==
    LET prop == FDiv(gain_excess, aum_start)
    IN  FMul(TierLoop(tiers, 1, prop, Zero, Zero).fee_prop, aum_start)

\* The local `remaining` when the tiered branch's loop ends.
WaterfallRemaining(gain_excess, aum_start, tiers) ==
    TierLoop(tiers, 1, FDiv(gain_excess, aum_start), Zero, Zero).remaining

\* The tiered performance fee: 0.0 unless gain_excess > 0.
TieredPerfRev(gain_excess, aum_start, tiers) ==
    IF FLt(Zero, gain_excess) THEN Waterfall(gain_excess, aum_start, tiers) ELSE Zero

\* A flat fee charged on the excess over the baseline instead of the raw return.
FlatPerfRevOnExcess(sch, gross, gain_excess, aum_start) ==
    FMul(sch.perf, gain_excess)

FlatPerfRev(sch, gross, gain_excess, aum_start) ==
    IF FLt(Zero, gain_excess)
    THEN LET monthly_hurdle == FDiv(sch.hurdle, Q(MonthsPerYear, 1))
         IN  FMul(FMul(sch.perf, PyMax(Zero, FSub(gross, monthly_hurdle))), aum_start)
    ELSE Zero

PerfRev(sch, gross, gain_excess, aum_start) ==
    IF sch.tiered
    THEN TieredPerfRev(gain_excess, aum_start, sch.tiers)
    ELSE FlatPerfRev(sch, gross, gain_excess, aum_start)

AumEndNoPerfFee(aum_after, mgmt_rev, perf_rev) == FSub(aum_after, mgmt_rev)

AumEnd(aum_after, mgmt_rev, perf_rev) == FSub(FSub(aum_after, mgmt_rev), perf_rev)

NextHwmNoMax(sch, hwm, aum_end) == IF sch.hwm THEN aum_end ELSE hwm

NextHwm(sch, hwm, aum_end) == IF sch.hwm THEN PyMax(hwm, aum_end) ELSE hwm

\* Net return after fees; aum_start # 0 (a Python float division by 0.0 raises).
NetReturn(aum_end, aum_start) == FSub(FDiv(aum_end, aum_start), One)

\* Python raises ZeroDivisionError in the period: at gain_excess / aum_start
\* or at aum_end / aum_start.
PeriodRaises(aum_start) == aum_start = Zero

\* One iteration of the loop body, as the dict it appends and the new locals.
PeriodStep(sch, aum_start, hwm, obs) ==
    LET gross == obs.GrossReturn
        mgmt_rev == MgmtRev(sch, aum_start)
        aum_after == AumAfter(aum_start, gross)
        gain_excess == GainExcess(sch, aum_after, hwm, aum_start)
        perf_rev == PerfRev(sch, gross, gain_excess, aum_start)
        aum_end == AumEnd(aum_after, mgmt_rev, perf_rev)
    IN  [rec |-> [Date |-> obs.Date,
                  GrossReturn |-> gross,
                  NetReturn |-> NetReturn(aum_end, aum_start),
                  MgmtFeeRevenue |-> mgmt_rev,
                  PerfFeeRevenue |-> perf_rev,
                  AUM_End |-> aum_end],
         hwm |-> NextHwm(sch, hwm, aum_end),
         gain_excess |-> gain_excess,
         aum_after |-> aum_after]

\* The list `records` after rows k..n of the frame, from locals aum = a and
\* hwm_value = h: the loop as a fold, cut short where an iteration raises.
RECURSIVE RunFrom(_, _, _, _, _, _)
RunFrom(sch, frame, k, n, a, h) ==
    IF k > n \/ PeriodRaises(a) THEN <<>>
    ELSE LET step == PeriodStep(sch, a, h, frame[k])
         IN  <<step.rec>> \o RunFrom(sch, frame, k + 1, n, step.rec.AUM_End, step.hwm)

\* monthly_df['Year'] = monthly_df['Date'].dt.year
WithYear(recs) ==
    [k \in 1..Len(recs) |->
        [Date |-> recs[k].Date,
         GrossReturn |-> recs[k].GrossReturn,
         NetReturn |-> recs[k].NetReturn,
         MgmtFeeRevenue |-> recs[k].MgmtFeeRevenue,
         PerfFeeRevenue |-> recs[k].PerfFeeRevenue,
         AUM_End |-> recs[k].AUM_End,
         Year |-> recs[k].Date.year]]

\* groupby('Year')[col].sum() for one group: the rows of that year, in order.
RECURSIVE GroupSumFrom(_, _, _, _)
GroupSumFrom(frame, year, col, k) ==
    IF k > Len(frame) THEN Zero
    ELSE FAdd(IF frame[k].Year = year THEN frame[k][col] ELSE Zero,
              GroupSumFrom(frame, year, col, k + 1))

GroupSumSkipFirst(frame, year, col) == GroupSumFrom(frame, year, col, 2)

GroupSum(frame, year, col) == GroupSumFrom(frame, year, col, 1)

AnnualRev(frame) ==
    [y \in {frame[k].Year : k \in 1..Len(frame)} |->
        LET m == GroupSum(frame, y, "MgmtFeeRevenue")
            p == GroupSum(frame, y, "PerfFeeRevenue")
        IN  [AnnualMgmtRev |-> m, AnnualPerfRev |-> p, TotalFeeRev |-> FAdd(m, p)]]

-----------------------------------------------------------------------------
(* Inputs of calculate_scheme *)

GrossReturns == {Q(-1, 1), Q(-1, 4), Zero, Q(1, 4), Q(1, 2)}

Dates ==
    {[year |-> 2023, month |-> 12], [year |-> 2024, month |-> 1],
     [year |-> 2024, month |-> 2]}

DateLt(a, b) == a.year < b.year \/ (a.year = b.year /\ a.month < b.month)

\* read_validate_csv hands over the frame sorted by Date.
SortedDates(n) ==
    {ds \in [1..n -> Dates] : \A i \in 1..n : \A j \in 1..n : i < j => DateLt(ds[i], ds[j])}

Frames ==
    UNION {{[k \in 1..n |-> [Date |-> ds[k], GrossReturn |-> gs[k]]] :
                ds \in SortedDates(n), gs \in [1..n -> GrossReturns]} :
           n \in 1..MaxLen}

\* Tier lists as input_fee_schemes builds them: only the last threshold is None.
TierListsOf(n, thresholds, shares) ==
    {[k \in 1..n |-> [threshold |-> IF k = n THEN None ELSE th[k],
                      manager_share |-> sh[k]]] :
        th \in [1..(n - 1) -> thresholds], sh \in [1..n -> shares]}

EngineTierLists ==
    UNION {TierListsOf(n, {Q(1, 10), Q(1, 5)}, {Q(1, 2), One}) : n \in 1..MaxTiers}

FlatSchemes ==
    {[hwm |-> h, tiered |-> FALSE, tiers |-> <<>>, mgmt |-> m, perf |-> p, hurdle |-> u] :
        h \in BOOLEAN, m \in {Zero, Q(3, 100)}, p \in {Zero, Q(1, 2)},
        u \in {Zero, Q(6, 100)}}

\* A tiered dict as the UI builds it (the flat fields 0.0) and as a direct
\* caller may build it (the flat fields set).
TieredSchemes ==
    {[hwm |-> h, tiered |-> TRUE, tiers |-> t, mgmt |-> f[1], perf |-> f[2],
      hurdle |-> f[3]] :
        h \in BOOLEAN, t \in EngineTierLists,
        f \in {<<Zero, Zero, Zero>>, <<Q(3, 100), Q(1, 2), Q(6, 100)>>}}

Schemes == FlatSchemes \cup TieredSchemes

InitialAums == {Q(100, 1)}

WfOff == [pc |-> "off"]
MxOff == [pc |-> "off"]

-----------------------------------------------------------------------------
(* calculate_scheme as a state machine *)

Init ==
    /\ df \in Frames
    /\ scheme \in Schemes
    /\ initial_aum \in InitialAums
    /\ aum = initial_aum
    /\ hwm_value = initial_aum
    /\ records = <<>>
    /\ row = 1
    /\ pc = "loop"
    /\ monthly_df = <<>>
    /\ annual_rev = <<>>
    /\ wf = WfOff
    /\ mx = MxOff

\* One iteration of `for row in df.itertuples(index=False)`.
Period ==
    /\ pc = "loop"
    /\ row <= Len(df)
    /\ ~PeriodRaises(aum)
    /\ LET step == PeriodStep(scheme, aum, hwm_value, df[row])
       IN  /\ records' = Append(records, step.rec)
           /\ aum' = step.rec.AUM_End
           /\ hwm_value' = step.hwm
    /\ row' = row + 1
    /\ UNCHANGED <<df, scheme, initial_aum, pc, monthly_df, annual_rev, wf, mx>>

\* The iteration in which aum_start is 0.0: ZeroDivisionError leaves the call.
PeriodZeroDivision ==
    /\ pc = "loop"
    /\ row <= Len(df)
    /\ PeriodRaises(aum)
    /\ pc' = "raised"
    /\ UNCHANGED <<df, scheme, initial_aum, aum, hwm_value, records, row,
                   monthly_df, annual_rev, wf, mx>>

\* After the loop: the monthly frame, the annual aggregation and the return.
Aggregate ==
    /\ pc = "loop"
    /\ row > Len(df)
    /\ monthly_df' = WithYear(records)
    /\ annual_rev' = AnnualRev(WithYear(records))
    /\ pc' = "done"
    /\ UNCHANGED <<df, scheme, initial_aum, aum, hwm_value, records, row, wf, mx>>

Next == Period \/ PeriodZeroDivision \/ Aggregate

Spec == Init /\ [][Next]_vars

-----------------------------------------------------------------------------
(* Claims about calculate_scheme *)

AumStartOf(k) == IF k = 1 THEN initial_aum ELSE records[k - 1].AUM_End

\* C1: with uses_high_water_mark true the high-water mark starts at
\* initial_aum and no period lowers it, whatever the return sequence.
C1_HwmNonDecreasing ==
    /\ (pc = "off" \/ hwm_value = initial_aum)
    /\ [][scheme.hwm => FLe(hwm_value, hwm_value')]_vars

\* The mark rose in the first period and held through a loss in the second.
C1_Witness ==
    /\ pc = "loop"
    /\ scheme.hwm
    /\ Len(records) = 2
    /\ FLt(initial_aum, hwm_value)
    /\ FLt(records[2].AUM_End, hwm_value)

ZeroFlatFields(sch) ==
    [hwm |-> sch.hwm, tiered |-> sch.tiered, tiers |-> sch.tiers,
     mgmt |-> Zero, perf |-> Zero, hurdle |-> Zero]

\* C2: for a tiered scheme the fields mgmt, perf and hurdle are inert: every
\* period has MgmtFeeRevenue = 0 and the periods emitted are those of the same
\* scheme with the three fields set to zero.
C2_TieredFlatFieldsInert ==
    (pc # "off" /\ scheme.tiered) =>
        /\ \A k \in 1..Len(records) : records[k].MgmtFeeRevenue = Zero
        /\ records = RunFrom(ZeroFlatFields(scheme), df, 1, Len(records),
                             initial_aum, initial_aum)

C3_Case ==
    /\ pc = "done"
    /\ ~scheme.tiered
    /\ scheme.perf = Zero
    /\ Len(df) = 1
    /\ Len(monthly_df) = 1

\* C3 as stated: a non-tiered scheme with perf_rate = 0 on a single
\* observation has net_return = -mgmt_rate/12.
C3_NetReturnIsMinusMgmt ==
    C3_Case => monthly_df[1].NetReturn = FNeg(FDiv(scheme.mgmt, Q(12, 1)))

\* C3 as amended: a non-tiered scheme with perf_rate = 0 on a single
\* observation has net_return = gross_return - mgmt_rate/12.
C3_NetReturnIsGrossMinusMgmt ==
    C3_Case =>
        monthly_df[1].NetReturn =
            FSub(df[1].GrossReturn, FDiv(scheme.mgmt, Q(12, 1)))

C3_Witness ==
    /\ C3_Case
    /\ scheme.mgmt # Zero
    /\ df[1].GrossReturn # Zero

RECURSIVE SumFeesOver(_)
SumFeesOver(rows) ==
    IF rows = {} THEN Zero
    ELSE LET k == CHOOSE r \in rows : TRUE
         IN  FAdd(FAdd(monthly_df[k].MgmtFeeRevenue, monthly_df[k].PerfFeeRevenue),
                  SumFeesOver(rows \ {k}))

RECURSIVE SumTotalsOver(_)
SumTotalsOver(years) ==
    IF years = {} THEN Zero
    ELSE LET y == CHOOSE r \in years : TRUE
         IN  FAdd(annual_rev[y].TotalFeeRev, SumTotalsOver(years \ {y}))

\* C4: the annual frame has exactly one row per calendar year present in the
\* input, each year's TotalFeeRev is the sum of MgmtFeeRevenue + PerfFeeRevenue
\* over the periods dated in that year, and the years' totals add up to the
\* fees of all periods (none counted twice or omitted).
C4_AnnualRoundTrip ==
    pc = "done" =>
        /\ DOMAIN annual_rev = {df[k].Date.year : k \in 1..Len(df)}
        /\ \A y \in DOMAIN annual_rev :
              annual_rev[y].TotalFeeRev =
                  SumFeesOver({k \in 1..Len(monthly_df) : monthly_df[k].Date.year = y})
        /\ SumTotalsOver(DOMAIN annual_rev) = SumFeesOver(1..Len(monthly_df))

\* Two calendar years, each with a fee.
C4_Witness ==
    /\ pc = "done"
    /\ Cardinality(DOMAIN annual_rev) = 2
    /\ \A y \in DOMAIN annual_rev : annual_rev[y].TotalFeeRev # Zero

\* C6: for every non-empty series and initial_aum > 0 the call completes and
\* returns one period per observation, in input order, also when aum_end
\* reaches zero or below.
C6_RunsToCompletion ==
    /\ pc # "raised"
    /\ pc = "done" =>
          /\ Len(monthly_df) = Len(df)
          /\ \A k \in 1..Len(df) :
                /\ monthly_df[k].Date = df[k].Date
                /\ monthly_df[k].GrossReturn = df[k].GrossReturn

RECURSIVE NetGrowth(_)
NetGrowth(k) ==
    IF k = 0 THEN One ELSE FMul(NetGrowth(k - 1), FAdd(One, records[k].NetReturn))

\* C10: in every period aum_end = aum_start * (1 + gross_return) - mgmt fee -
\* perf fee and net_return = aum_end / aum_start - 1, where aum_start is
\* initial_aum in the first period and the previous AUM_End afterwards; so
\* AUM_End after k periods is initial_aum times the product of (1 + net_return).
C10_AumAccounting ==
    \A k \in 1..Len(records) :
        LET r == records[k]
            start == AumStartOf(k)
        IN  /\ r.AUM_End =
                  FSub(FSub(FMul(start, FAdd(One, r.GrossReturn)), r.MgmtFeeRevenue),
                       r.PerfFeeRevenue)
            /\ r.NetReturn = FSub(FDiv(r.AUM_End, start), One)
            /\ r.AUM_End = FMul(initial_aum, NetGrowth(k))
            /\ (k = Len(records) => aum = r.AUM_End)

\* Two periods, the second charging both fees.
C10_Witness ==
    /\ Len(records) = 2
    /\ records[2].MgmtFeeRevenue # Zero
    /\ records[2].PerfFeeRevenue # Zero
    /\ records[1].NetReturn # Zero

\* The running peak before period k: initial_aum and every earlier AUM_End.
RECURSIVE PeakBefore(_)
PeakBefore(k) ==
    IF k = 1 THEN initial_aum ELSE PyMax(PeakBefore(k - 1), records[k - 1].AUM_End)

AumAfterOf(k) == FMul(AumStartOf(k), FAdd(One, records[k].GrossReturn))

BaselineOf(k) == IF scheme.hwm THEN PeakBefore(k) ELSE AumStartOf(k)

\* C11: in every period of a non-tiered scheme perf_fee = perf_rate *
\* max(0, gross_return - hurdle_rate/12) * aum_start if aum_after_gross exceeds
\* the baseline (the running peak with a high-water mark, else aum_start) and
\* 0 otherwise: computed from the raw monthly return, not from gain_excess.
C11_FlatPerfFee ==
    (pc # "off" /\ ~scheme.tiered) =>
        \A k \in 1..Len(records) :
            records[k].PerfFeeRevenue =
                IF FLt(BaselineOf(k), AumAfterOf(k))
                THEN FMul(FMul(scheme.perf,
                               PyMax(Zero, FSub(records[k].GrossReturn,
                                                FDiv(scheme.hurdle, Q(12, 1))))),
                          AumStartOf(k))
                ELSE Zero

\* With a high-water mark: a positive return above the hurdle that stays
\* under the peak is charged nothing.
C11_Witness ==
    /\ pc = "loop"
    /\ ~scheme.tiered
    /\ scheme.hwm
    /\ scheme.perf # Zero
    /\ Len(records) = 2
    /\ FLt(FDiv(scheme.hurdle, Q(12, 1)), records[2].GrossReturn)
    /\ FLe(AumAfterOf(2), PeakBefore(2))
    /\ records[2].PerfFeeRevenue = Zero
    /\ records[1].PerfFeeRevenue = Zero

\* C13: with a high-water mark the performance fee of a period never exceeds
\* the value created above the peak in that period: PerfFeeRevenue <=
\* gain_excess = max(0, aum_after_gross - high_water_mark), for flat schemes
\* (perf_rate in [0,1], hurdle_rate >= 0) and tiered schemes (shares in [0,1]).
C13_PerfFeeWithinExcess ==
    (pc # "off" /\ scheme.hwm) =>
        \A k \in 1..Len(records) :
            FLe(records[k].PerfFeeRevenue,
                PyMax(Zero, FSub(AumAfterOf(k), PeakBefore(k))))

-----------------------------------------------------------------------------
(* The tiered performance fee as a function of gain_excess *)

WfTierLists ==
    UNION {TierListsOf(n, {Zero, Q(1, 10), Q(1, 5)}, {Zero, Q(1, 2), One}) :
               n \in 1..MaxWfTiers}

WfAumStarts == {Q(20, 1), Q(25, 1)}

WfGains == {Q(k, 1) : k \in 0..MaxGain}

EngineOff ==
    /\ df = <<>>
    /\ scheme = None
    /\ initial_aum = Zero
    /\ aum = Zero
    /\ hwm_value = Zero
    /\ records = <<>>
    /\ row = 0
    /\ pc = "off"
    /\ monthly_df = <<>>
    /\ annual_rev = <<>>

InitWaterfall ==
    /\ EngineOff
    /\ mx = MxOff
    /\ wf \in {[pc |-> "start", tiers |-> t, aum_start |-> a, gain |-> Zero,
                 fee |-> Zero, remaining |-> Zero, prev_gain |-> Zero,
                 prev_fee |-> Zero] :
                    t \in WfTierLists, a \in WfAumStarts}

\* `remaining` after the loop; 0 where the branch is not taken.
WfRemaining(g) ==
    IF FLt(Zero, g) THEN WaterfallRemaining(g, wf.aum_start, wf.tiers) ELSE Zero

\* The fee of a first gain_excess.
WfFirst ==
    /\ wf.pc = "start"
    /\ \E g \in WfGains :
          LET fee == TieredPerfRev(g, wf.aum_start, wf.tiers)
          IN  wf' = [wf EXCEPT !.pc = "evaluated", !.gain = g, !.fee = fee,
                               !.remaining = WfRemaining(g),
                               !.prev_gain = g, !.prev_fee = fee]
    /\ UNCHANGED <<engineVars, mx>>

\* The fee of a gain_excess raised by d >= 0, same aum_start and tiers.
WfRaise ==
    /\ wf.pc = "evaluated"
    /\ \E g \in WfGains :
          /\ FLe(wf.gain, g)
          /\ wf' = [wf EXCEPT !.gain = g,
                              !.fee = TieredPerfRev(g, wf.aum_start, wf.tiers),
                              !.remaining = WfRemaining(g),
                              !.prev_gain = wf.gain, !.prev_fee = wf.fee]
    /\ UNCHANGED <<engineVars, mx>>

NextWaterfall == WfFirst \/ WfRaise

SpecWaterfall == InitWaterfall /\ [][NextWaterfall]_vars

RECURSIVE MaxShare(_, _)
MaxShare(tiers, k) ==
    IF k > Len(tiers) THEN Zero
    ELSE PyMax(tiers[k].manager_share, MaxShare(tiers, k + 1))

\* C5: for fixed aum_start > 0 and tiers with shares in [0,1] the tiered fee
\* is 0 at gain_excess = 0, and raising gain_excess by d >= 0 raises the fee
\* by at least 0 and at most d times the largest manager share, also across
\* a tier threshold.
C5_WaterfallMonotoneContinuous ==
    wf.pc = "evaluated" =>
        /\ (wf.gain = Zero => wf.fee = Zero)
        /\ FLe(wf.prev_fee, wf.fee)
        /\ FLe(FSub(wf.fee, wf.prev_fee),
               FMul(FSub(wf.gain, wf.prev_gain), MaxShare(wf.tiers, 1)))

\* A raise across the first threshold into a band with another share.
C5_Witness ==
    /\ wf.pc = "evaluated"
    /\ Len(wf.tiers) >= 2
    /\ wf.tiers[1].manager_share # wf.tiers[2].manager_share
    /\ FLt(Zero, wf.prev_gain)
    /\ FLt(FDiv(wf.prev_gain, wf.aum_start), wf.tiers[1].threshold)
    /\ FLt(wf.tiers[1].threshold, FDiv(wf.gain, wf.aum_start))
    /\ FLt(wf.prev_fee, wf.fee)

-----------------------------------------------------------------------------
(* performance_metrics, tracking_error, information_ratio, beta *)

\* Results that are not rationals, kept symbolic.
Root(q) == [root |-> q]                        \* sqrt(q)
AnnRet(g, n) == [growth |-> g, periods |-> n]  \* g ** (12/n) - 1
Ratio(a, b, den) == [minuend |-> a, subtrahend |-> b, den |-> den]  \* (a - b) / den
Raised(exc) == [raised |-> exc]
NotCalled == [called |-> FALSE]

RiskFreeRate == Q(25, 1000)

RECURSIVE SumFrom(_, _)
SumFrom(xs, k) == IF k > Len(xs) THEN Zero ELSE FAdd(xs[k], SumFrom(xs, k + 1))

Sum(xs) == SumFrom(xs, 1)

RECURSIVE ProdFrom(_, _)
ProdFrom(xs, k) == IF k > Len(xs) THEN One ELSE FMul(xs[k], ProdFrom(xs, k + 1))

Mean(xs) == FDiv(Sum(xs), Q(Len(xs), 1))

Sq(x) == FMul(x, x)

\* std(ddof=0) ** 2
PopVar(xs) ==
    LET m == Mean(xs)
    IN  Mean([k \in 1..Len(xs) |-> Sq(FSub(xs[k], m))])

\* sqrt(v) * sqrt(12)
AnnualizedRoot(v) == Root(FMul(Q(MonthsPerYear, 1), v))

\* Python truth of a float result: 0.0 is false, every other value (nan too) true.
Truthy(x) == x # Zero /\ x # Root(Zero)

\* monthly_net.add(1).prod() ** (12/periods) - 1
AnnualizeReturn(xs) ==
    AnnRet(ProdFrom([k \in 1..Len(xs) |-> FAdd(xs[k], One)], 1), Len(xs))

SharpeNoGuard(ann_ret, rf, ann_vol) == Ratio(ann_ret, rf, ann_vol)

Sharpe(ann_ret, rf, ann_vol) ==
    IF Truthy(ann_vol) THEN Ratio(ann_ret, rf, ann_vol) ELSE NaN

DownsideDev(xs) ==
    LET downside == SelectSeq(xs, LAMBDA r : FLt(r, Zero))
    IN  IF Len(downside) > 0
        THEN AnnualizedRoot(Mean([k \in 1..Len(downside) |-> Sq(downside[k])]))
        ELSE Zero

Sortino(ann_ret, rf, dd) ==
    IF Truthy(dd) THEN Ratio(ann_ret, rf, dd) ELSE NaN

PerformanceMetrics(monthly_net, rf) ==
    LET ann_ret == AnnualizeReturn(monthly_net)
        ann_vol == AnnualizedRoot(PopVar(monthly_net))
        dd == DownsideDev(monthly_net)
    IN  [AnnualizedReturn |-> ann_ret,
         AnnualizedVolatility |-> ann_vol,
         SharpeRatio |-> Sharpe(ann_ret, rf, ann_vol),
         SortinoRatio |-> Sortino(ann_ret, rf, dd)]

\* numpy broadcasting of two 1-D arrays: equal lengths, or one of length 1.
Broadcastable(a, b) == Len(a) = Len(b) \/ Len(a) = 1 \/ Len(b) = 1

BroadcastLen(a, b) == IF Len(a) >= Len(b) THEN Len(a) ELSE Len(b)

At(a, k) == IF Len(a) = 1 THEN a[1] ELSE a[k]

TrackingError(net_returns, bench_returns) ==
    IF ~Broadcastable(net_returns, bench_returns) THEN Raised("ValueError")
    ELSE LET diff == [k \in 1..BroadcastLen(net_returns, bench_returns) |->
                         FSub(At(net_returns, k), At(bench_returns, k))]
         IN  AnnualizedRoot(PopVar(diff))

InformationRatioNoGuard(net_ann, bench_ann, te) == Ratio(net_ann, bench_ann, te)

InformationRatio(net_ann, bench_ann, te) ==
    IF te = Root(Zero) THEN NaN ELSE Ratio(net_ann, bench_ann, te)

\* sample covariance; the arrays are broadcastable
CovPopulation(net_returns, bench_returns) ==
    LET net_mean == Mean(net_returns)
        bench_mean == Mean(bench_returns)
    IN  FDiv(Sum([k \in 1..BroadcastLen(net_returns, bench_returns) |->
                     FMul(FSub(At(net_returns, k), net_mean),
                          FSub(At(bench_returns, k), bench_mean))]),
             Q(Len(net_returns), 1))

Cov(net_returns, bench_returns) ==
    LET net_mean == Mean(net_returns)
        bench_mean == Mean(bench_returns)
    IN  FDiv(Sum([k \in 1..BroadcastLen(net_returns, bench_returns) |->
                     FMul(FSub(At(net_returns, k), net_mean),
                          FSub(At(bench_returns, k), bench_mean))]),
             Q(Len(net_returns) - 1, 1))

VarBench(bench_returns) ==
    LET bench_mean == Mean(bench_returns)
    IN  FDiv(Sum([k \in 1..Len(bench_returns) |->
                     Sq(FSub(bench_returns[k], bench_mean))]),
             Q(Len(bench_returns) - 1, 1))

Beta(net_returns, bench_returns) ==
    IF ~Broadcastable(net_returns, bench_returns) THEN Raised("ValueError")
    ELSE LET cov == Cov(net_returns, bench_returns)
             var_bench == VarBench(bench_returns)
         IN  IF var_bench = Zero THEN NaN ELSE FDiv(cov, var_bench)

MetricReturns == {Q(-1, 4), Zero, Q(1, 2)}

MetricSeries == UNION {[1..n -> MetricReturns] : n \in 1..MaxObs}

InitMetrics ==
    /\ EngineOff
    /\ wf = WfOff
    /\ mx \in {[pc |-> "performance_metrics", net_returns |-> x, bench_returns |-> y,
                 metrics |-> NotCalled, te |-> NotCalled, beta |-> NotCalled,
                 ir |-> NotCalled] :
                    x \in MetricSeries, y \in MetricSeries}

MxPerformanceMetrics ==
    /\ mx.pc = "performance_metrics"
    /\ mx' = [mx EXCEPT !.pc = "tracking_error",
                        !.metrics = PerformanceMetrics(mx.net_returns, RiskFreeRate)]
    /\ UNCHANGED <<engineVars, wf>>

MxTrackingError ==
    /\ mx.pc = "tracking_error"
    /\ mx' = [mx EXCEPT !.pc = "beta",
                        !.te = TrackingError(mx.net_returns, mx.bench_returns)]
    /\ UNCHANGED <<engineVars, wf>>

MxBeta ==
    /\ mx.pc = "beta"
    /\ mx' = [mx EXCEPT !.pc = "information_ratio",
                        !.beta = Beta(mx.net_returns, mx.bench_returns)]
    /\ UNCHANGED <<engineVars, wf>>

\* information_ratio takes the tracking error that tracking_error returned.
MxInformationRatio ==
    /\ mx.pc = "information_ratio"
    /\ mx.te # Raised("ValueError")
    /\ mx' = [mx EXCEPT !.pc = "done",
                        !.ir = InformationRatio(mx.metrics.AnnualizedReturn,
                                                AnnualizeReturn(mx.bench_returns),
                                                mx.te)]
    /\ UNCHANGED <<engineVars, wf>>

NextMetrics ==
    MxPerformanceMetrics \/ MxTrackingError \/ MxBeta \/ MxInformationRatio

SpecMetrics == InitMetrics /\ [][NextMetrics]_vars

Constant(xs) == \A i \in 1..Len(xs) : \A j \in 1..Len(xs) : xs[i] = xs[j]

\* C7: a zero denominator yields nan and never an error: the Sharpe ratio when
\* the annualized volatility is 0, the Sortino ratio when no return is
\* negative, the information ratio when the tracking error is 0, beta when
\* the benchmark's sample variance is 0; the other metrics are computed.
C7_ZeroDenominatorIsNaN ==
    /\ mx.metrics # NotCalled =>
          /\ mx.metrics.AnnualizedReturn = AnnualizeReturn(mx.net_returns)
          /\ mx.metrics.AnnualizedVolatility =
                 AnnualizedRoot(PopVar(mx.net_returns))
          /\ (mx.metrics.AnnualizedVolatility = Root(Zero)
                 => mx.metrics.SharpeRatio = NaN)
          /\ ((\A k \in 1..Len(mx.net_returns) : FLe(Zero, mx.net_returns[k]))
                 => mx.metrics.SortinoRatio = NaN)
    /\ (mx.ir # NotCalled /\ mx.te = Root(Zero)) => mx.ir = NaN
    /\ (/\ mx.beta # NotCalled
        /\ Len(mx.net_returns) = Len(mx.bench_returns)
        /\ Len(mx.bench_returns) >= 2
        /\ Constant(mx.bench_returns)) => mx.beta = NaN

\* All four denominators are 0 in one run.
C7_Witness ==
    /\ mx.pc = "done"
    /\ Len(mx.bench_returns) >= 2
    /\ Constant(mx.bench_returns)
    /\ mx.net_returns = mx.bench_returns
    /\ mx.metrics.AnnualizedVolatility = Root(Zero)
    /\ mx.te = Root(Zero)
    /\ mx.metrics.SharpeRatio = NaN
    /\ mx.metrics.SortinoRatio = NaN
    /\ mx.ir = NaN
    /\ mx.beta = NaN

C8_Case ==
    /\ mx.pc = "done"
    /\ mx.net_returns = mx.bench_returns
    /\ Len(mx.net_returns) >= 2
    /\ ~Constant(mx.net_returns)

\* C8: for a series X of length >= 2 with nonzero sample variance,
\* beta(X, X) = 1, tracking_error(X, X) = 0 and the information ratio of X
\* against X with that tracking error is undefined.
C8_SelfComparison ==
    C8_Case =>
        /\ mx.beta = One
        /\ mx.te = Root(Zero)
        /\ mx.ir = NaN

C8_Witness ==
    /\ C8_Case
    /\ Len(mx.net_returns) = 3
    /\ mx.beta = One

\* C9: tracking_error and beta raise whenever the two series differ in
\* length, also when one of them has length 1.
C9_LengthMismatchRaises ==
    Len(mx.net_returns) # Len(mx.bench_returns) =>
        /\ (mx.te # NotCalled => mx.te = Raised("ValueError"))
        /\ (mx.beta # NotCalled => mx.beta = Raised("ValueError"))

-----------------------------------------------------------------------------
(* The waterfall's apportionment *)

LowerOf(tiers, k) == IF k = 1 THEN Zero ELSE tiers[k - 1].threshold

UpperOf(tiers, k) == IF tiers[k].threshold # None THEN tiers[k].threshold ELSE PosInf

\* Length of the overlap of [0, prop] with the band of tier k.
Overlap(tiers, k, prop) ==
    PyMax(Zero, FSub(PyMin(prop, UpperOf(tiers, k)), LowerOf(tiers, k)))

RECURSIVE BandFee(_, _, _)
BandFee(tiers, k, prop) ==
    IF k > Len(tiers) THEN Zero
    ELSE FAdd(FMul(tiers[k].manager_share, Overlap(tiers, k, prop)),
              BandFee(tiers, k + 1, prop))

\* Thresholds strictly ascending; the last tier unbounded.
Ascending(tiers) ==
    /\ tiers[Len(tiers)].threshold = None
    /\ \A i \in 1..(Len(tiers) - 1) : \A j \in 1..(Len(tiers) - 1) :
          i < j => FLt(tiers[i].threshold, tiers[j].threshold)

C12_Case ==
    /\ wf.pc = "evaluated"
    /\ Ascending(wf.tiers)
    /\ FLt(Zero, wf.gain)

\* C12: for tiers ascending by threshold with the last unbounded, aum_start >
\* 0 and gain_excess > 0 the waterfall apportions the whole gain: remaining
\* ends at 0 and the fee is aum_start times the sum over tiers of
\* manager_share times the overlap of [0, gain_excess/aum_start] with the
\* tier's band [previous threshold, threshold].
C12_WholeGainApportioned ==
    C12_Case =>
        /\ wf.remaining = Zero
        /\ wf.fee =
              FMul(wf.aum_start,
                   BandFee(wf.tiers, 1, FDiv(wf.gain, wf.aum_start)))

\* The same with every threshold positive (no empty band).
C12_PositiveThresholds ==
    (C12_Case /\ \A k \in 1..(Len(wf.tiers) - 1) : FLt(Zero, wf.tiers[k].threshold))
        => (/\ wf.remaining = Zero
            /\ wf.fee =
                  FMul(wf.aum_start,
                       BandFee(wf.tiers, 1, FDiv(wf.gain, wf.aum_start))))

====
